---- MODULE Spec2Model ----
(***************************************************************************)
(* Model of app.py: the playlist compilation pipeline.                     *)
(*   main -> download_video* -> combine_videos -> upload_video             *)
(*        -> create_spedup_version -> upload_video -> rename -> cleanup    *)
(* Text is modelled as sequences of one-character strings so that the      *)
(* scraping of ffmpeg's report is computed the way the code computes it.   *)
(* Times are integers in hundredths of a second.                           *)
(***************************************************************************)
EXTENDS Integers, Sequences, FiniteSets, TLC

VARIABLES
    pc,                 \* position of main / combine_videos / create_spedup_version
    downloaded_files,   \* main: list of [idx, report] for the downloaded clips
    nextVideo,          \* main: index of the next playlist video to download
    probeIdx,           \* combine_videos: position of the first-pass loop
    max_width,          \* combine_videos: running / final target width
    max_height,         \* combine_videos: running / final target height
    intermediate_files, \* combine_videos: list of clip indices int_<idx>.mp4 appended
    normIdx,            \* combine_videos: position of the normalization loop
    scaleCmds,          \* the <<w, h>> of every normalization command issued
    downloadDir,        \* file system: names in ./downloads
    outputDir,          \* file system: names in ./output
    dirExists,          \* file system: ./output/intermediate exists
    dirFiles,           \* file system: clip indices whose int_<idx>.mp4 exists
    listFile,           \* file system: concat_list.txt, <<>> when absent, else <<lines>>
    joinInvoked,        \* the concat ffmpeg command was run
    verifyFailed,       \* the manifest re-read found a missing path
    combined_path,      \* main: what combine_videos returned ("none" or a file name)
    errorLog,           \* logger.error records of combine_videos' concat stage
    removals,           \* removal attempts of combine_videos' finally block, in order
    externalDeletes,    \* how many files another process removed so far
    upload_response,    \* main: first upload's result
    original_seconds,   \* create_spedup_version: probed D_orig (-1: not probed)
    lofi_seconds,       \* create_spedup_version: probed D_audio (-1: not probed)
    random_start,       \* create_spedup_version: chosen start offset (-1: none)
    filterGraph,        \* create_spedup_version: the filter graph of the encoder command
    encoderInvoked,     \* the re-timing ffmpeg command was run
    spedup_path,        \* main: what create_spedup_version returned
    cleaned,            \* cleanup_files ran
    text,               \* probe check: the report text given to the parser
    parsed              \* probe check: what the parser returned for it

vars == << pc, downloaded_files, nextVideo, probeIdx, max_width, max_height,
           intermediate_files, normIdx, scaleCmds, downloadDir, outputDir, dirExists,
           dirFiles, listFile, joinInvoked, verifyFailed, combined_path, errorLog,
           removals, externalDeletes, upload_response, original_seconds, lofi_seconds,
           random_start, filterGraph, encoderInvoked, spedup_path, cleaned, text,
           parsed >>

(***************************************************************************)
(* Bounds of the model.                                                    *)
(***************************************************************************)
MaxClips ==
    2

MaxExternalDeletes ==
    1

MaxBody ==
    5

(***************************************************************************)
(* Python string operations, on sequences of characters.                   *)
(***************************************************************************)
Digit == {"0", "1", "2", "3", "4", "5", "6", "7", "8", "9"}

Whitespace == {" ", "\n", "\t"}

\* sub in s
Contains(s, sub) ==
    \E i \in 1..(Len(s) - Len(sub) + 1) : SubSeq(s, i, i + Len(sub) - 1) = sub

\* the positions of s that satisfy: s[i] = c
PositionsOf(s, c) ==
    { i \in 1..Len(s) : s[i] = c }

\* the k-th smallest element of a set of positions
NthPosition(P, k) ==
    CHOOSE i \in P : Cardinality({ j \in P : j < i }) = k - 1

\* s.split(sep) for a one-character separator: empty fields are kept
Split(s, sep) ==
    LET P == PositionsOf(s, sep)
        n == Cardinality(P)
    IN  [k \in 1..(n + 1) |->
           SubSeq(s, IF k = 1 THEN 1 ELSE NthPosition(P, k - 1) + 1,
                     IF k = n + 1 THEN Len(s) ELSE NthPosition(P, k) - 1)]

\* s.strip()
Strip(s) ==
    LET keep == { i \in 1..Len(s) : s[i] \notin Whitespace }
    IN  IF keep = {} THEN << >>
        ELSE SubSeq(s, CHOOSE i \in keep : \A j \in keep : i <= j,
                       CHOOSE i \in keep : \A j \in keep : i >= j)

IsDigitChar(c) ==
    c \in Digit

\* ''.join(filter(str.isdigit, s))
DigitsOf(s) ==
    SelectSeq(s, IsDigitChar)

DigitVal(c) ==
    CASE c = "0" -> 0 [] c = "1" -> 1 [] c = "2" -> 2 [] c = "3" -> 3 [] c = "4" -> 4
      [] c = "5" -> 5 [] c = "6" -> 6 [] c = "7" -> 7 [] c = "8" -> 8 [] c = "9" -> 9

\* int(s) for a non-empty string of digits
RECURSIVE ToInt(_)
ToInt(s) ==
    IF s = << >> THEN 0 ELSE 10 * ToInt(SubSeq(s, 1, Len(s) - 1)) + DigitVal(s[Len(s)])

(***************************************************************************)
(* The resolution probe of combine_videos' first pass (lines 257-274).     *)
(***************************************************************************)
STREAM_MARK ==
    << "S", "t", "r", "e", "a", "m", " ", "#", "0", ":", "0" >>

VIDEO_MARK ==
    << "V", "i", "d", "e", "o", ":" >>

\* the substrings that select the "resolution part" of the stream line
ResolutionHints ==
    { << " ", "h", "d" >>, << " ", "s", "d" >>, << "x" >>, << "0", "x", "0" >> }

IsVideoStreamLine(line) ==
    Contains(line, STREAM_MARK) /\ Contains(line, VIDEO_MARK)

HasResolutionHint(p) ==
    \E x \in ResolutionHints : Contains(p, x)

NoGeometry == [kind |-> "none", w |-> 0, h |-> 0]

ProbeRaised == [kind |-> "raised", w |-> 0, h |-> 0]

Geometry(w, h) == [kind |-> "geometry", w |-> w, h |-> h]

\* which comma-separated parts are looked at for the resolution (line 261)
ResolutionCandidates(parts) ==
    SelectSeq(parts, HasResolutionHint)

\* lines 258-271 on the text of result.stderr; "raised" is the except branch of line 275
ProbeResolution(stderr) ==
    LET stream_info == SelectSeq(Split(stderr, "\n"), IsVideoStreamLine)
    IN  IF stream_info = << >> THEN NoGeometry
        ELSE
          LET cand == ResolutionCandidates(Split(stream_info[1], ","))
          IN  IF cand = << >> THEN ProbeRaised
              ELSE
                LET resolution_part == Strip(cand[1])
                    resolution == Split(resolution_part, " ")[1]
                    wh == Split(resolution, "x")
                IN  IF ~Contains(resolution, << "x" >>) THEN NoGeometry
                    ELSE IF Len(wh) # 2 THEN ProbeRaised
                    ELSE
                      LET width == DigitsOf(wh[1])
                          height == DigitsOf(Split(wh[2], " ")[1])
                      IN  IF width # << >> /\ height # << >>
                          THEN Geometry(ToInt(width), ToInt(height))
                          ELSE NoGeometry

(***************************************************************************)
(* Reports of ffmpeg (result.stderr) used as inputs.                       *)
(***************************************************************************)
StreamPrefix ==
    << "S", "t", "r", "e", "a", "m", " ", "#", "0", ":", "0", ":", " ", "V", "i", "d", "e",
       "o", ":", " " >>

Report640x360 ==
    << "D", "u", "r", "a", "t", "i", "o", "n", ":", " ", "0", "0", ":", "0", "0", ":", "1",
       "0", ".", "0", "0", "\n", "S", "t", "r", "e", "a", "m", " ", "#", "0", ":", "0", ":",
       " ", "V", "i", "d", "e", "o", ":", " ", "v", "p", "9", ",", " ", "y", "u", "v", "4",
       "2", "0", "p", ",", " ", "6", "4", "0", "x", "3", "6", "0", ",", " ", "3", "0", " ",
       "f", "p", "s", "\n", "S", "t", "r", "e", "a", "m", " ", "#", "0", ":", "1", ":", " ",
       "A", "u", "d", "i", "o", ":", " ", "o", "p", "u", "s" >>

Report1280x720 ==
    << "S", "t", "r", "e", "a", "m", " ", "#", "0", ":", "0", ":", " ", "V", "i", "d", "e",
       "o", ":", " ", "v", "p", "9", ",", " ", "y", "u", "v", "4", "2", "0", "p", ",", " ",
       "1", "2", "8", "0", "x", "7", "2", "0", ",", " ", "3", "0", " ", "f", "p", "s" >>

Report1920x1080 ==
    << "S", "t", "r", "e", "a", "m", " ", "#", "0", ":", "0", ":", " ", "V", "i", "d", "e",
       "o", ":", " ", "v", "p", "9", ",", " ", "y", "u", "v", "4", "2", "0", "p", "(", "t",
       "v", ",", " ", "b", "t", "7", "0", "9", ")", ",", " ", "1", "9", "2", "0", "x", "1",
       "0", "8", "0", " ", "[", "S", "A", "R", " ", "1", ":", "1", " ", "D", "A", "R", " ",
       "1", "6", ":", "9", "]", ",", " ", "3", "0", " ", "f", "p", "s" >>

Report1920x800 ==
    << "S", "t", "r", "e", "a", "m", " ", "#", "0", ":", "0", ":", " ", "V", "i", "d", "e",
       "o", ":", " ", "v", "p", "9", ",", " ", "y", "u", "v", "4", "2", "0", "p", ",", " ",
       "1", "9", "2", "0", "x", "8", "0", "0", ",", " ", "2", "4", " ", "f", "p", "s" >>

Report1280x1024 ==
    << "S", "t", "r", "e", "a", "m", " ", "#", "0", ":", "0", ":", " ", "V", "i", "d", "e",
       "o", ":", " ", "v", "p", "9", ",", " ", "y", "u", "v", "4", "2", "0", "p", ",", " ",
       "1", "2", "8", "0", "x", "1", "0", "2", "4", ",", " ", "2", "4", " ", "f", "p", "s" >>

ReportCodecTag ==
    << "S", "t", "r", "e", "a", "m", " ", "#", "0", ":", "0", "(", "u", "n", "d", ")", ":",
       " ", "V", "i", "d", "e", "o", ":", " ", "h", "2", "6", "4", " ", "(", "H", "i", "g",
       "h", ")", " ", "(", "a", "v", "c", "1", " ", "/", " ", "0", "x", "3", "1", "6", "3",
       "7", "6", "6", "1", ")", ",", " ", "y", "u", "v", "4", "2", "0", "p", ",", " ", "1",
       "2", "8", "0", "x", "7", "2", "0", ",", " ", "3", "0", " ", "f", "p", "s" >>

ReportAudioOnly ==
    << "D", "u", "r", "a", "t", "i", "o", "n", ":", " ", "0", "0", ":", "0", "0", ":", "1",
       "0", ".", "0", "0", "\n", "S", "t", "r", "e", "a", "m", " ", "#", "0", ":", "0", ":",
       " ", "A", "u", "d", "i", "o", ":", " ", "a", "a", "c" >>

ReportNoSize ==
    << "S", "t", "r", "e", "a", "m", " ", "#", "0", ":", "0", ":", " ", "V", "i", "d", "e",
       "o", ":", " ", "v", "p", "9", ",", " ", "y", "u", "v", "4", "2", "0", "p" >>

Reports ==
    << Report640x360, Report1920x1080, Report1280x720, Report1920x800, Report1280x1024,
       ReportCodecTag, ReportAudioOnly, ReportNoSize >>

(***************************************************************************)
(* File names.                                                             *)
(***************************************************************************)
MP4 ==
    << ".", "m", "p", "4" >>

UPLOADED_MP4 ==
    << "_", "u", "p", "l", "o", "a", "d", "e", "d", ".", "m", "p", "4" >>

\* output_filename of main (line 460)
OUTPUT_FILENAME ==
    << "a", "u", "g", "u", "s", "t", "_", "2", "0", "2", "5", "_", "c", "o", "m", "p", "i",
       "l", "a", "t", "i", "o", "n", ".", "m", "p", "4" >>

LOFI_SUFFIX ==
    << "_", "4", "x", "_", "l", "o", "f", "i", ".", "m", "p", "4" >>

\* os.path.abspath of intermediate_dir, up to the clip's number
ABS_INTERMEDIATE ==
    << "/", "w", "/", "o", "u", "t", "p", "u", "t", "/", "i", "n", "t", "e", "r", "m", "e",
       "d", "i", "a", "t", "e", "/", "i", "n", "t", "_" >>

FILE_OPEN ==
    << "f", "i", "l", "e", " ", "'" >>

DigitChars == << "0", "1", "2", "3", "4", "5", "6", "7", "8", "9" >>

\* str(idx) for a one-digit index
Str(i) ==
    << DigitChars[i + 1] >>

\* s.endswith(suf)
EndsWith(s, suf) ==
    Len(s) >= Len(suf) /\ SubSeq(s, Len(s) - Len(suf) + 1, Len(s)) = suf

\* where old occurs in s
Occurrences(s, old) ==
    { i \in 1..(Len(s) - Len(old) + 1) : SubSeq(s, i, i + Len(old) - 1) = old }

\* s.replace(old, new): every occurrence, left to right
RECURSIVE Replace(_, _, _)
Replace(s, old, new) ==
    IF Occurrences(s, old) = {} THEN s
    ELSE LET i == CHOOSE k \in Occurrences(s, old) : \A j \in Occurrences(s, old) : k <= j
         IN  SubSeq(s, 1, i - 1) \o new \o Replace(SubSeq(s, i + Len(old), Len(s)), old, new)

\* os.path.splitext(name)[0]: the name up to its last dot
SplitExtRoot(s) ==
    LET dots == PositionsOf(s, ".")
    IN  IF dots = {} THEN s
        ELSE SubSeq(s, 1, (CHOOSE i \in dots : \A j \in dots : i >= j) - 1)

\* os.path.abspath(os.path.join(intermediate_dir, f"int_{idx}.mp4"))
AbsIntermediatePath(idx) ==
    ABS_INTERMEDIATE \o Str(idx) \o MP4

\* the line written for one normalized clip (line 325)
ManifestLine(idx) ==
    FILE_OPEN \o AbsIntermediatePath(idx) \o << "'", "\n" >>

\* the lines of concat_list.txt for intermediate_files (lines 321-325)
ManifestLines(files) ==
    [i \in 1..Len(files) |-> ManifestLine(files[i])]

\* line.strip()[6:-1] (line 334)
ManifestEntryPath(line) ==
    LET s == Strip(line) IN SubSeq(s, 7, Len(s) - 1)

\* os.path.exists of a path under the scratch directory
PathExists(path, files) ==
    \E idx \in files : AbsIntermediatePath(idx) = path

\* lines 332-336: TRUE when no listed path is missing
ManifestFirstEntryExists(lines, files) ==
    lines = << >> \/ PathExists(ManifestEntryPath(lines[1]), files)

ManifestEntriesExist(lines, files) ==
    \A i \in 1..Len(lines) : PathExists(ManifestEntryPath(lines[i]), files)

(***************************************************************************)
(* Canonical format of combine_videos (lines 248-284).                     *)
(***************************************************************************)
FALLBACK_WIDTH ==
    1280

FALLBACK_HEIGHT ==
    720

\* lines 269-274 with >= in place of >
UpdateMaxLastSeen(mw, mh, g) ==
    IF g.kind = "geometry" /\ g.w >= mw THEN << g.w, g.h >> ELSE << mw, mh >>

\* lines 269-274: a strictly greater width replaces the maximum and its height
UpdateMax(mw, mh, g) ==
    IF g.kind = "geometry" /\ g.w > mw THEN << g.w, g.h >> ELSE << mw, mh >>

\* lines 279-281 with another default
FallbackOther(mw, mh) ==
    IF mw = 0 \/ mh = 0 THEN << 1920, 1080 >> ELSE << mw, mh >>

\* lines 279-281
Fallback(mw, mh) ==
    IF mw = 0 \/ mh = 0 THEN << FALLBACK_WIDTH, FALLBACK_HEIGHT >> ELSE << mw, mh >>

(***************************************************************************)
(* Durations of create_spedup_version (lines 78-101), in hundredths of a   *)
(* second.                                                                 *)
(***************************************************************************)
SPEED ==
    4

\* the 1 second buffer of line 96
BUFFER ==
    100

\* the factor of setpts in the filter graph (line 113), in hundredths
SETPTS_PERCENT ==
    35

NotProbed == -1

\* float(h) * 3600 + float(m) * 60 + float(s) (lines 81, 90)
Seconds(d) ==
    d.h * 360000 + d.m * 6000 + d.s

\* the Duration: fields reported for the compilation, as [h, m, s]
OriginalDurations ==
    { [h |-> 0, m |-> 2, s |-> 0], [h |-> 0, m |-> 6, s |-> 4000] }

\* the Duration: fields reported for the audio asset
LofiDurations ==
    { [h |-> 0, m |-> 0, s |-> 3100], [h |-> 0, m |-> 0, s |-> 4000] }

\* line 82
SpedupDuration(orig) ==
    orig \div SPEED

\* line 96
MaxStart(orig, lofi) ==
    lofi - SpedupDuration(orig) - BUFFER

\* line 97 with < in place of <=
WindowEmptyStrict(max_start) ==
    max_start < 0

\* line 97
WindowEmpty(max_start) ==
    max_start <= 0

\* values random.uniform(a, b) can return: both ends and the middle
UniformSamples(a, b) ==
    { a, a + (b - a) \div 2, b }

\* the filter graph of line 113-114 and the -t of line 123
FilterGraph(orig, start) ==
    [ setpts |-> SETPTS_PERCENT, trim |-> SpedupDuration(orig), atrim_start |-> start,
      apad_whole_dur |-> SpedupDuration(orig), t |-> SpedupDuration(orig) ]

NoFilterGraph ==
    [ setpts |-> 0, trim |-> 0, atrim_start |-> 0, apad_whole_dur |-> 0, t |-> 0 ]

\* length of the video after setpts=<percent/100>*PTS
RescaledDuration(orig, percent) ==
    (orig * percent) \div 100

(***************************************************************************)
(* Initial states.                                                         *)
(***************************************************************************)
NoPath == << >>

InitCommon ==
    /\ downloaded_files = << >>
    /\ nextVideo = 0
    /\ probeIdx = 1
    /\ max_width = 0
    /\ max_height = 0
    /\ intermediate_files = << >>
    /\ normIdx = 1
    /\ scaleCmds = << >>
    /\ downloadDir = {}
    /\ outputDir = {}
    /\ dirExists = FALSE
    /\ dirFiles = {}
    /\ listFile = << >>
    /\ joinInvoked = FALSE
    /\ verifyFailed = FALSE
    /\ combined_path = NoPath
    /\ errorLog = << >>
    /\ removals = << >>
    /\ externalDeletes = 0
    /\ upload_response = FALSE
    /\ original_seconds = NotProbed
    /\ lofi_seconds = NotProbed
    /\ random_start = NotProbed
    /\ filterGraph = NoFilterGraph
    /\ encoderInvoked = FALSE
    /\ spedup_path = NoPath
    /\ cleaned = FALSE
    /\ parsed = NoGeometry

\* main, after the playlist was fetched and filtered (line 447)
Init ==
    /\ InitCommon
    /\ pc = "download"
    /\ text = << >>

(***************************************************************************)
(* main: the download loop (lines 447-457).                                *)
(***************************************************************************)
Range(s) == { s[i] : i \in 1..Len(s) }

\* download_video returned True: the clip is stored and listed
DownloadOk ==
    /\ pc = "download"
    /\ nextVideo < MaxClips
    /\ \E r \in 1..Len(Reports) :
         downloaded_files' = Append(downloaded_files, [video |-> nextVideo, report |-> r])
    /\ downloadDir' = downloadDir \cup { nextVideo }
    /\ nextVideo' = nextVideo + 1
    /\ UNCHANGED << pc, probeIdx, max_width, max_height, intermediate_files, normIdx,
                    scaleCmds, outputDir, dirExists, dirFiles, listFile, joinInvoked,
                    verifyFailed, combined_path, errorLog, removals, externalDeletes,
                    upload_response, original_seconds, lofi_seconds, random_start,
                    filterGraph, encoderInvoked, spedup_path, cleaned, text, parsed >>

\* download_video returned False: the clip is left out
DownloadFail ==
    /\ pc = "download"
    /\ nextVideo < MaxClips
    /\ nextVideo' = nextVideo + 1
    /\ UNCHANGED << pc, downloaded_files, probeIdx, max_width, max_height,
                    intermediate_files, normIdx, scaleCmds, downloadDir, outputDir,
                    dirExists, dirFiles, listFile, joinInvoked, verifyFailed,
                    combined_path, errorLog, removals, externalDeletes, upload_response,
                    original_seconds, lofi_seconds, random_start, filterGraph,
                    encoderInvoked, spedup_path, cleaned, text, parsed >>

\* the loop ends (the playlist had nextVideo >= 1 videos); lines 455-462
EndDownloads ==
    /\ pc = "download"
    /\ nextVideo >= 1
    /\ pc' = IF downloaded_files = << >> THEN "done" ELSE "probe"
    /\ UNCHANGED << downloaded_files, nextVideo, probeIdx, max_width, max_height,
                    intermediate_files, normIdx, scaleCmds, downloadDir, outputDir,
                    dirExists, dirFiles, listFile, joinInvoked, verifyFailed,
                    combined_path, errorLog, removals, externalDeletes, upload_response,
                    original_seconds, lofi_seconds, random_start, filterGraph,
                    encoderInvoked, spedup_path, cleaned, text, parsed >>

(***************************************************************************)
(* combine_videos (lines 240-373).                                         *)
(***************************************************************************)
\* what the probe yields on each report (lines 257-271)
ReportGeometries ==
    [r \in 1..Len(Reports) |-> ProbeResolution(Reports[r])]

\* what the probe of clip number i (1-based position in video_files) yields
ClipGeometry(i) ==
    ReportGeometries[downloaded_files[i].report]

\* one iteration of the first pass (lines 250-277)
ProbeClip ==
    /\ pc = "probe"
    /\ probeIdx <= Len(downloaded_files)
    /\ LET m == UpdateMax(max_width, max_height, ClipGeometry(probeIdx))
       IN  max_width' = m[1] /\ max_height' = m[2]
    /\ probeIdx' = probeIdx + 1
    /\ UNCHANGED << pc, downloaded_files, nextVideo, intermediate_files, normIdx,
                    scaleCmds, downloadDir, outputDir, dirExists, dirFiles, listFile,
                    joinInvoked, verifyFailed, combined_path, errorLog, removals,
                    externalDeletes, upload_response, original_seconds, lofi_seconds,
                    random_start, filterGraph, encoderInvoked, spedup_path, cleaned,
                    text, parsed >>

\* after the first pass: the fallback and the scratch directory (lines 279-289)
ResolveFormat ==
    /\ pc = "probe"
    /\ probeIdx > Len(downloaded_files)
    /\ LET m == Fallback(max_width, max_height)
       IN  max_width' = m[1] /\ max_height' = m[2]
    /\ dirExists' = TRUE
    /\ pc' = "normalize"
    /\ UNCHANGED << downloaded_files, nextVideo, probeIdx, intermediate_files, normIdx,
                    scaleCmds, downloadDir, outputDir, dirFiles, listFile, joinInvoked,
                    verifyFailed, combined_path, errorLog, removals, externalDeletes,
                    upload_response, original_seconds, lofi_seconds, random_start,
                    filterGraph, encoderInvoked, spedup_path, cleaned, text, parsed >>

\* line 308 with the new path put in front
PrependIntermediate(files, idx) ==
    << idx >> \o files

\* intermediate_files.append(intermediate_path) (line 308)
AppendIntermediate(files, idx) ==
    Append(files, idx)

\* one normalization command that exits 0 (lines 291-308); idx is enumerate's index
NormalizeOk ==
    /\ pc = "normalize"
    /\ normIdx <= Len(downloaded_files)
    /\ scaleCmds' = Append(scaleCmds, << max_width, max_height >>)
    /\ dirFiles' = dirFiles \cup { normIdx - 1 }
    /\ intermediate_files' = AppendIntermediate(intermediate_files, normIdx - 1)
    /\ normIdx' = normIdx + 1
    /\ UNCHANGED << pc, downloaded_files, nextVideo, probeIdx, max_width, max_height,
                    downloadDir, outputDir, dirExists, listFile, joinInvoked,
                    verifyFailed, combined_path, errorLog, removals, externalDeletes,
                    upload_response, original_seconds, lofi_seconds, random_start,
                    filterGraph, encoderInvoked, spedup_path, cleaned, text, parsed >>

\* one normalization command that exits non-zero (lines 309-311)
NormalizeFail ==
    /\ pc = "normalize"
    /\ normIdx <= Len(downloaded_files)
    /\ scaleCmds' = Append(scaleCmds, << max_width, max_height >>)
    /\ normIdx' = normIdx + 1
    /\ UNCHANGED << pc, downloaded_files, nextVideo, probeIdx, max_width, max_height,
                    intermediate_files, downloadDir, outputDir, dirExists, dirFiles,
                    listFile, joinInvoked, verifyFailed, combined_path, errorLog,
                    removals, externalDeletes, upload_response, original_seconds,
                    lofi_seconds, random_start, filterGraph, encoderInvoked, spedup_path,
                    cleaned, text, parsed >>

\* no clip normalized: return None (lines 313-315)
NoIntermediateFiles ==
    /\ pc = "normalize"
    /\ normIdx > Len(downloaded_files)
    /\ intermediate_files = << >>
    /\ errorLog' = Append(errorLog, [kind |-> "no_intermediate", manifest |-> << >>])
    /\ combined_path' = NoPath
    /\ pc' = "after_combine"
    /\ UNCHANGED << downloaded_files, nextVideo, probeIdx, max_width, max_height,
                    intermediate_files, normIdx, scaleCmds, downloadDir, outputDir,
                    dirExists, dirFiles, listFile, joinInvoked, verifyFailed, removals,
                    externalDeletes, upload_response, original_seconds, lofi_seconds,
                    random_start, filterGraph, encoderInvoked, spedup_path, cleaned,
                    text, parsed >>

\* the manifest is written (lines 318-325)
WriteManifest ==
    /\ pc = "normalize"
    /\ normIdx > Len(downloaded_files)
    /\ intermediate_files # << >>
    /\ listFile' = ManifestLines(intermediate_files)
    /\ pc' = "verify"
    /\ UNCHANGED << downloaded_files, nextVideo, probeIdx, max_width, max_height,
                    intermediate_files, normIdx, scaleCmds, downloadDir, outputDir,
                    dirExists, dirFiles, joinInvoked, verifyFailed, combined_path,
                    errorLog, removals, externalDeletes, upload_response,
                    original_seconds, lofi_seconds, random_start, filterGraph,
                    encoderInvoked, spedup_path, cleaned, text, parsed >>

\* another process removes a normalized clip between the write and the join
ExternalDelete ==
    /\ pc \in { "verify", "concat" }
    /\ externalDeletes < MaxExternalDeletes
    /\ \E idx \in dirFiles : dirFiles' = dirFiles \ { idx }
    /\ externalDeletes' = externalDeletes + 1
    /\ UNCHANGED << pc, downloaded_files, nextVideo, probeIdx, max_width, max_height,
                    intermediate_files, normIdx, scaleCmds, downloadDir, outputDir,
                    dirExists, listFile, joinInvoked, verifyFailed, combined_path,
                    errorLog, removals, upload_response, original_seconds, lofi_seconds,
                    random_start, filterGraph, encoderInvoked, spedup_path, cleaned,
                    text, parsed >>

\* the manifest is read back (lines 327-336); a missing path raises FileNotFoundError,
\* which the handler of lines 356-358 logs before returning None
VerifyManifest ==
    /\ pc = "verify"
    /\ verifyFailed' = (\E i \in 1..Len(intermediate_files) :
                          intermediate_files[i] \notin dirFiles)
    /\ IF listFile # << >> /\ ManifestEntriesExist(listFile, dirFiles)
       THEN /\ pc' = "concat"
            /\ UNCHANGED << errorLog, combined_path >>
       ELSE /\ errorLog' = Append(errorLog, [kind |-> "concatenation", manifest |-> << >>])
            /\ combined_path' = NoPath
            /\ pc' = "finally"
    /\ UNCHANGED << downloaded_files, nextVideo, probeIdx, max_width, max_height,
                    intermediate_files, normIdx, scaleCmds, downloadDir, outputDir,
                    dirExists, dirFiles, listFile, joinInvoked, removals,
                    externalDeletes, upload_response, original_seconds, lofi_seconds,
                    random_start, filterGraph, encoderInvoked, spedup_path, cleaned,
                    text, parsed >>

\* the join exits 0 (lines 338-348); it can only do so when its inputs are there
JoinOk ==
    /\ pc = "concat"
    /\ \A i \in 1..Len(intermediate_files) : intermediate_files[i] \in dirFiles
    /\ joinInvoked' = TRUE
    /\ outputDir' = outputDir \cup { OUTPUT_FILENAME }
    /\ combined_path' = OUTPUT_FILENAME
    /\ pc' = "finally"
    /\ UNCHANGED << downloaded_files, nextVideo, probeIdx, max_width, max_height,
                    intermediate_files, normIdx, scaleCmds, downloadDir, dirExists,
                    dirFiles, listFile, verifyFailed, errorLog, removals,
                    externalDeletes, upload_response, original_seconds, lofi_seconds,
                    random_start, filterGraph, encoderInvoked, spedup_path, cleaned,
                    text, parsed >>

\* the join exits non-zero: the manifest is logged (lines 349-355)
JoinFail ==
    /\ pc = "concat"
    /\ joinInvoked' = TRUE
    /\ errorLog' = Append(errorLog, [kind |-> "ffmpeg", manifest |-> listFile])
    /\ combined_path' = NoPath
    /\ pc' = "finally"
    /\ UNCHANGED << downloaded_files, nextVideo, probeIdx, max_width, max_height,
                    intermediate_files, normIdx, scaleCmds, downloadDir, outputDir,
                    dirExists, dirFiles, listFile, verifyFailed, removals,
                    externalDeletes, upload_response, original_seconds, lofi_seconds,
                    random_start, filterGraph, encoderInvoked, spedup_path, cleaned,
                    text, parsed >>

\* the removal attempts of the finally block, in order (lines 359-373)
RemovalAttempts(files) ==
    [i \in 1..Len(files) |-> << "file", files[i] >>] \o << << "list" >>, << "dir" >> >>

\* the finally block: unlink each file, the manifest, then rmdir (fails when not empty)
FinallyCleanup ==
    /\ pc = "finally"
    /\ removals' = removals \o RemovalAttempts(intermediate_files)
    /\ dirFiles' = dirFiles \ Range(intermediate_files)
    /\ listFile' = << >>
    /\ dirExists' = (dirFiles \ Range(intermediate_files) # {})
    /\ pc' = "after_combine"
    /\ UNCHANGED << downloaded_files, nextVideo, probeIdx, max_width, max_height,
                    intermediate_files, normIdx, scaleCmds, downloadDir, outputDir,
                    joinInvoked, verifyFailed, combined_path, errorLog, externalDeletes,
                    upload_response, original_seconds, lofi_seconds, random_start,
                    filterGraph, encoderInvoked, spedup_path, cleaned, text, parsed >>

(***************************************************************************)
(* main after combine_videos (lines 463-495).                              *)
(***************************************************************************)
\* lines 463-465
AfterCombine ==
    /\ pc = "after_combine"
    /\ pc' = IF combined_path = NoPath \/ combined_path \notin outputDir
             THEN "done" ELSE "upload"
    /\ UNCHANGED << downloaded_files, nextVideo, probeIdx, max_width, max_height,
                    intermediate_files, normIdx, scaleCmds, downloadDir, outputDir,
                    dirExists, dirFiles, listFile, joinInvoked, verifyFailed,
                    combined_path, errorLog, removals, externalDeletes, upload_response,
                    original_seconds, lofi_seconds, random_start, filterGraph,
                    encoderInvoked, spedup_path, cleaned, text, parsed >>

\* upload_video returned a response (lines 473-477)
UploadOk ==
    /\ pc = "upload"
    /\ upload_response' = TRUE
    /\ pc' = "retime"
    /\ UNCHANGED << downloaded_files, nextVideo, probeIdx, max_width, max_height,
                    intermediate_files, normIdx, scaleCmds, downloadDir, outputDir,
                    dirExists, dirFiles, listFile, joinInvoked, verifyFailed,
                    combined_path, errorLog, removals, externalDeletes,
                    original_seconds, lofi_seconds, random_start, filterGraph,
                    encoderInvoked, spedup_path, cleaned, text, parsed >>

\* upload_video returned None (lines 494-495): main returns
UploadFail ==
    /\ pc = "upload"
    /\ pc' = "done"
    /\ UNCHANGED << downloaded_files, nextVideo, probeIdx, max_width, max_height,
                    intermediate_files, normIdx, scaleCmds, downloadDir, outputDir,
                    dirExists, dirFiles, listFile, joinInvoked, verifyFailed,
                    combined_path, errorLog, removals, externalDeletes, upload_response,
                    original_seconds, lofi_seconds, random_start, filterGraph,
                    encoderInvoked, spedup_path, cleaned, text, parsed >>

(***************************************************************************)
(* create_spedup_version (lines 63-134).                                   *)
(***************************************************************************)
\* the audio asset is not there (lines 69-71)
LofiMissing ==
    /\ pc = "retime"
    /\ spedup_path' = NoPath
    /\ pc' = "after_retime"
    /\ UNCHANGED << downloaded_files, nextVideo, probeIdx, max_width, max_height,
                    intermediate_files, normIdx, scaleCmds, downloadDir, outputDir,
                    dirExists, dirFiles, listFile, joinInvoked, verifyFailed,
                    combined_path, errorLog, removals, externalDeletes, upload_response,
                    original_seconds, lofi_seconds, random_start, filterGraph,
                    encoderInvoked, cleaned, text, parsed >>

\* the first probe has no Duration: line, or the second has none (lines 91-93)
ProbeDurationsFail ==
    /\ pc = "retime"
    /\ \/ UNCHANGED original_seconds
       \/ \E d \in OriginalDurations : original_seconds' = Seconds(d)
    /\ spedup_path' = NoPath
    /\ pc' = "after_retime"
    /\ UNCHANGED << downloaded_files, nextVideo, probeIdx, max_width, max_height,
                    intermediate_files, normIdx, scaleCmds, downloadDir, outputDir,
                    dirExists, dirFiles, listFile, joinInvoked, verifyFailed,
                    combined_path, errorLog, removals, externalDeletes, upload_response,
                    lofi_seconds, random_start, filterGraph, encoderInvoked, cleaned,
                    text, parsed >>

\* both durations are read (lines 74-90)
ProbeDurations ==
    /\ pc = "retime"
    /\ \E d \in OriginalDurations : original_seconds' = Seconds(d)
    /\ \E d \in LofiDurations : lofi_seconds' = Seconds(d)
    /\ pc' = "window"
    /\ UNCHANGED << downloaded_files, nextVideo, probeIdx, max_width, max_height,
                    intermediate_files, normIdx, scaleCmds, downloadDir, outputDir,
                    dirExists, dirFiles, listFile, joinInvoked, verifyFailed,
                    combined_path, errorLog, removals, externalDeletes, upload_response,
                    random_start, filterGraph, encoderInvoked, spedup_path, cleaned,
                    text, parsed >>

\* the window of the start offset, and the draw (lines 95-125)
ChooseStart ==
    /\ pc = "window"
    /\ LET max_start == MaxStart(original_seconds, lofi_seconds)
       IN  IF WindowEmpty(max_start)
           THEN /\ spedup_path' = NoPath
                /\ pc' = "after_retime"
                /\ UNCHANGED << random_start, filterGraph >>
           ELSE /\ \E s \in UniformSamples(0, max_start) :
                     /\ random_start' = s
                     /\ filterGraph' = FilterGraph(original_seconds, s)
                /\ pc' = "encode"
                /\ UNCHANGED spedup_path
    /\ UNCHANGED << downloaded_files, nextVideo, probeIdx, max_width, max_height,
                    intermediate_files, normIdx, scaleCmds, downloadDir, outputDir,
                    dirExists, dirFiles, listFile, joinInvoked, verifyFailed,
                    combined_path, errorLog, removals, externalDeletes, upload_response,
                    original_seconds, lofi_seconds, encoderInvoked, cleaned, text,
                    parsed >>

\* base_name + "_4x_lofi.mp4" (lines 104-105)
SpedupName(original) ==
    SplitExtRoot(original) \o LOFI_SUFFIX

\* the encoder exits 0 (lines 128-131)
EncodeOk ==
    /\ pc = "encode"
    /\ encoderInvoked' = TRUE
    /\ outputDir' = outputDir \cup { SpedupName(combined_path) }
    /\ spedup_path' = SpedupName(combined_path)
    /\ pc' = "after_retime"
    /\ UNCHANGED << downloaded_files, nextVideo, probeIdx, max_width, max_height,
                    intermediate_files, normIdx, scaleCmds, downloadDir, dirExists,
                    dirFiles, listFile, joinInvoked, verifyFailed, combined_path,
                    errorLog, removals, externalDeletes, upload_response,
                    original_seconds, lofi_seconds, random_start, filterGraph, cleaned,
                    text, parsed >>

\* the encoder exits non-zero (lines 132-134)
EncodeFail ==
    /\ pc = "encode"
    /\ encoderInvoked' = TRUE
    /\ spedup_path' = NoPath
    /\ pc' = "after_retime"
    /\ UNCHANGED << downloaded_files, nextVideo, probeIdx, max_width, max_height,
                    intermediate_files, normIdx, scaleCmds, downloadDir, outputDir,
                    dirExists, dirFiles, listFile, joinInvoked, verifyFailed,
                    combined_path, errorLog, removals, externalDeletes, upload_response,
                    original_seconds, lofi_seconds, random_start, filterGraph, cleaned,
                    text, parsed >>

(***************************************************************************)
(* main after create_spedup_version (lines 479-493), cleanup_files.        *)
(***************************************************************************)
\* the second upload, whatever it returns, and the two renames (lines 479-489)
UploadSpedupAndRename ==
    /\ pc = "after_retime"
    /\ spedup_path # NoPath
    /\ outputDir' = (outputDir \ { combined_path, spedup_path })
                      \cup { Replace(combined_path, MP4, UPLOADED_MP4),
                             Replace(spedup_path, MP4, UPLOADED_MP4) }
    /\ pc' = "cleanup"
    /\ UNCHANGED << downloaded_files, nextVideo, probeIdx, max_width, max_height,
                    intermediate_files, normIdx, scaleCmds, downloadDir, dirExists,
                    dirFiles, listFile, joinInvoked, verifyFailed, combined_path,
                    errorLog, removals, externalDeletes, upload_response,
                    original_seconds, lofi_seconds, random_start, filterGraph,
                    encoderInvoked, spedup_path, cleaned, text, parsed >>

\* no sped-up file: nothing is renamed (line 479 is false)
SkipRename ==
    /\ pc = "after_retime"
    /\ spedup_path = NoPath
    /\ pc' = "cleanup"
    /\ UNCHANGED << downloaded_files, nextVideo, probeIdx, max_width, max_height,
                    intermediate_files, normIdx, scaleCmds, downloadDir, outputDir,
                    dirExists, dirFiles, listFile, joinInvoked, verifyFailed,
                    combined_path, errorLog, removals, externalDeletes, upload_response,
                    original_seconds, lofi_seconds, random_start, filterGraph,
                    encoderInvoked, spedup_path, cleaned, text, parsed >>

\* the files cleanup_files leaves in the output directory (lines 52-56)
KeptOutputs(files) ==
    { f \in files : EndsWith(f, UPLOADED_MP4) }

\* cleanup_files (lines 42-60), called at line 492
CleanupFiles ==
    /\ pc = "cleanup"
    /\ downloadDir' = {}
    /\ outputDir' = KeptOutputs(outputDir)
    /\ cleaned' = TRUE
    /\ pc' = "done"
    /\ UNCHANGED << downloaded_files, nextVideo, probeIdx, max_width, max_height,
                    intermediate_files, normIdx, scaleCmds, dirExists, dirFiles,
                    listFile, joinInvoked, verifyFailed, combined_path, errorLog,
                    removals, externalDeletes, upload_response, original_seconds,
                    lofi_seconds, random_start, filterGraph, encoderInvoked, spedup_path,
                    text, parsed >>

Next ==
    \/ DownloadOk \/ DownloadFail \/ EndDownloads
    \/ ProbeClip \/ ResolveFormat
    \/ NormalizeOk \/ NormalizeFail \/ NoIntermediateFiles \/ WriteManifest
    \/ ExternalDelete \/ VerifyManifest \/ JoinOk \/ JoinFail \/ FinallyCleanup
    \/ AfterCombine \/ UploadOk \/ UploadFail
    \/ LofiMissing \/ ProbeDurationsFail \/ ProbeDurations \/ ChooseStart
    \/ EncodeOk \/ EncodeFail
    \/ UploadSpedupAndRename \/ SkipRename \/ CleanupFiles

Spec == Init /\ [][Next]_vars

(***************************************************************************)
(* The resolution probe on its own, over bounded report texts.             *)
(***************************************************************************)
Alphabet == { "1", "2", "x", ",", " ", "a" }

\* every text of at most MaxBody characters
Bodies ==
    UNION { [1..n -> Alphabet] : n \in 0..MaxBody }

ProbeInputs ==
    { StreamPrefix \o b : b \in Bodies } \cup Range(Reports)

InitProbe ==
    /\ InitCommon
    /\ pc = "parse"
    /\ text \in ProbeInputs

\* lines 257-271 on one report
ParseReport ==
    /\ pc = "parse"
    /\ parsed' = ProbeResolution(text)
    /\ pc' = "parsed"
    /\ UNCHANGED << downloaded_files, nextVideo, probeIdx, max_width, max_height,
                    intermediate_files, normIdx, scaleCmds, downloadDir, outputDir,
                    dirExists, dirFiles, listFile, joinInvoked, verifyFailed,
                    combined_path, errorLog, removals, externalDeletes, upload_response,
                    original_seconds, lofi_seconds, random_start, filterGraph,
                    encoderInvoked, spedup_path, cleaned, text >>

NextProbe ==
    ParseReport

SpecProbe == InitProbe /\ [][NextProbe]_vars

(***************************************************************************)
(* Properties.                                                             *)
(***************************************************************************)
\* the clips of the batch whose probe yields a width and a height
ProbedClips ==
    { i \in 1..Len(downloaded_files) :
        /\ ClipGeometry(i).kind = "geometry"
        /\ ClipGeometry(i).w > 0
        /\ ClipGeometry(i).h > 0 }

\* the largest width among the probed clips
MaxProbedWidth ==
    CHOOSE w \in { ClipGeometry(i).w : i \in ProbedClips } :
        \A i \in ProbedClips : ClipGeometry(i).w <= w

\* the first clip, in input order, that has the largest width
FirstWidestClip ==
    CHOOSE i \in ProbedClips :
        /\ ClipGeometry(i).w = MaxProbedWidth
        /\ \A j \in ProbedClips : ClipGeometry(j).w = MaxProbedWidth => i <= j

\* combine_videos has chosen its target resolution
FormatChosen ==
    downloaded_files # << >> /\ pc \notin { "download", "probe" }

\* C1: when at least one clip of the batch yields a usable (width, height), the target
\* width is the largest probed width and the target height is the height of the first
\* clip in input order that has that width.
C1_TargetIsFirstWidestClip ==
    (FormatChosen /\ ProbedClips # {}) =>
        /\ max_width = MaxProbedWidth
        /\ max_height = ClipGeometry(FirstWidestClip).h

\* two clips of the same, largest width and different heights: the first one's height won
C1_Witness ==
    /\ FormatChosen
    /\ \E i, j \in ProbedClips :
         /\ i < j
         /\ ClipGeometry(i).w = MaxProbedWidth
         /\ ClipGeometry(j).w = MaxProbedWidth
         /\ ClipGeometry(i).h # ClipGeometry(j).h
         /\ max_height = ClipGeometry(i).h

\* C2: when no clip of the batch yields a usable geometry, the target resolution, and the
\* scale of every normalization command, is 1280x720.
C2_FallbackWhenNothingProbed ==
    (FormatChosen /\ ProbedClips = {}) =>
        /\ max_width = 1280
        /\ max_height = 720
        /\ \A i \in 1..Len(scaleCmds) : scaleCmds[i] = << 1280, 720 >>

\* a batch of two clips, none probed, both normalization commands issued
C2_Witness ==
    /\ FormatChosen
    /\ ProbedClips = {}
    /\ Len(downloaded_files) >= 2
    /\ Len(scaleCmds) = Len(downloaded_files)

\* the first video stream line of a report, as the probe selects it
VideoLines(t) ==
    SelectSeq(Split(t, "\n"), IsVideoStreamLine)

\* the tokens of a line: what commas and blanks separate
Tokens(line) ==
    LET NonEmpty(tok) == tok # << >>
    IN  SelectSeq(Split([i \in 1..Len(line) |-> IF line[i] = "," THEN " " ELSE line[i]], " "),
                  NonEmpty)

\* a WIDTHxHEIGHT token: digits, an x, digits
IsSizeToken(tok) ==
    LET p == Split(tok, "x")
    IN  /\ Len(p) = 2
        /\ p[1] # << >> /\ p[2] # << >>
        /\ \A i \in 1..Len(p[1]) : p[1][i] \in Digit
        /\ \A i \in 1..Len(p[2]) : p[2][i] \in Digit

SizeTokens(line) ==
    SelectSeq(Tokens(line), IsSizeToken)

\* the line's first comma-separated field (stream number and codec) holds no size
SizeAfterCodecField(line) ==
    SizeTokens(line) # << >> /\ SizeTokens(Split(line, ",")[1]) = << >>

\* C3: for a video stream line that contains a WIDTHxHEIGHT token (after the codec
\* field), the probe returns the width and height of the first such token, also when an
\* earlier field holds an 'x'.
C3_ProbeReturnsFirstSizeToken ==
    (pc = "parsed" /\ VideoLines(text) # << >> /\ SizeAfterCodecField(VideoLines(text)[1])) =>
        LET p == Split(SizeTokens(VideoLines(text)[1])[1], "x")
        IN  parsed = Geometry(ToInt(p[1]), ToInt(p[2]))

\* C4: when the manifest re-read finds a listed path missing, the join command is not run
\* and combine_videos returns None, leaving no compilation file.
C4_NoJoinAfterMissingPath ==
    verifyFailed =>
        /\ ~joinInvoked
        /\ combined_path = NoPath
        /\ OUTPUT_FILENAME \notin outputDir

\* a clip vanished before the re-read and combine_videos has returned
C4_Witness ==
    /\ verifyFailed
    /\ externalDeletes > 0
    /\ pc = "after_combine"

\* C5: when the manifest re-read fails, the error report holds the manifest's lines.
C5_ManifestFailureLogsManifest ==
    verifyFailed =>
        \E i \in 1..Len(errorLog) : errorLog[i].manifest = ManifestLines(intermediate_files)

\* C6: on every exit of combine_videos after the scratch directory was created, no
\* normalized file, no manifest and no scratch directory remains, and removal was
\* attempted in the order files, manifest, directory.
C6_ScratchRemovedOnEveryExit ==
    pc = "after_combine" =>
        /\ dirFiles = {}
        /\ listFile = << >>
        /\ ~dirExists
        /\ removals = RemovalAttempts(intermediate_files)

\* max_start = D_audio - D_orig/4 - 1, in hundredths of a second
ClaimedMaxStart ==
    lofi_seconds - original_seconds \div 4 - 100

\* create_spedup_version has returned
RetimeReturned ==
    upload_response /\ pc \in { "after_retime", "cleanup", "done" }

\* C7: the encoder runs only when both durations were probed, max_start > 0 and
\* 0 <= start <= max_start; when a probe fails or max_start <= 0 the function returns
\* None and the encoder is not run.
C7_EncoderOnlyWithValidWindow ==
    /\ encoderInvoked =>
         /\ original_seconds # NotProbed
         /\ lofi_seconds # NotProbed
         /\ ClaimedMaxStart > 0
         /\ 0 <= random_start
         /\ random_start <= ClaimedMaxStart
    /\ ( /\ RetimeReturned
         /\ \/ original_seconds = NotProbed
            \/ lofi_seconds = NotProbed
            \/ ClaimedMaxStart <= 0 ) =>
         /\ ~encoderInvoked
         /\ spedup_path = NoPath

\* the encoder ran with the offset at the very end of the window
C7_Witness ==
    /\ encoderInvoked
    /\ random_start = ClaimedMaxStart
    /\ random_start > 0

\* C8: the filter graph rescales the video's timestamps by 1/4, so that the whole video
\* lasts D_orig/4 before the trim to D_orig/4.
C8_SetptsIsInverseOfSpeed ==
    encoderInvoked =>
        /\ filterGraph.setpts * 4 = 100
        /\ RescaledDuration(original_seconds, filterGraph.setpts) = filterGraph.trim

\* C9: whichever stage fails after the downloads, main does not return before the cleaner
\* ran: the download directory is empty and the output directory holds only files named
\* ..._uploaded.mp4.
C9_CleanerRunsOnEveryPath ==
    (pc = "done" /\ downloaded_files # << >>) =>
        /\ cleaned
        /\ downloadDir = {}
        /\ \A f \in outputDir : EndsWith(f, UPLOADED_MP4)

\* C10: when combine_videos produced the compilation and the re-timing stage fails, the
\* compilation is still in the output directory, under its name or its _uploaded name,
\* when main returns.
C10_RetimeFailureKeepsCompilation ==
    ( /\ pc = "done"
      /\ combined_path # NoPath
      /\ upload_response
      /\ original_seconds # NotProbed
      /\ spedup_path = NoPath ) =>
        \/ OUTPUT_FILENAME \in outputDir
        \/ Replace(OUTPUT_FILENAME, MP4, UPLOADED_MP4) \in outputDir

\* the paths of the normalized clips that exist, in input order
NormalizedPathsInOrder ==
    [k \in 1..Cardinality(dirFiles) |-> AbsIntermediatePath(NthPosition(dirFiles, k))]

\* C11: a clip whose normalization command exits non-zero is skipped and the loop goes
\* on; when the loop ends the manifest lists exactly the normalized clips, in input
\* order; when none normalized the function returns None, writes no manifest and does
\* not run the join.
C11_ManifestListsNormalizedClips ==
    [][ /\ (pc = "normalize" /\ normIdx' = normIdx + 1 /\ dirFiles' = dirFiles) =>
            /\ pc' = "normalize"
            /\ intermediate_files' = intermediate_files
        /\ (pc = "normalize" /\ pc' # "normalize") =>
            IF dirFiles = {}
            THEN /\ pc' = "after_combine"
                 /\ combined_path' = NoPath
                 /\ listFile' = << >>
                 /\ ~joinInvoked'
            ELSE /\ pc' = "verify"
                 /\ [i \in 1..Len(listFile') |-> ManifestEntryPath(listFile'[i])]
                      = NormalizedPathsInOrder' ]_vars

\* a clip was skipped and at least one normalized: the manifest is
\* written with the normalized clips only
C11_Witness ==
    /\ pc = "verify"
    /\ externalDeletes = 0
    /\ Len(listFile) = Cardinality(dirFiles)
    /\ Len(listFile) < Len(downloaded_files)

====
